---- MODULE Spec2Model ----
(***************************************************************************)
(* A model of aiff2arduino.go: the AIFF/AIFC to 8-bit PCM converter.       *)
(*                                                                         *)
(* The input file is a sequence of bytes (0..255).  The program is one     *)
(* sequential run of main(); pc is its position.  Every binary.Read,       *)
(* ReadByte and skipBytes moves pos, the number of bytes consumed so far.  *)
(* Standard output is a sequence of tokens, one per fmt.Print call.        *)
(*                                                                         *)
(* float64 values are modelled bit for bit: a value is a sign, an odd      *)
(* integer mantissa of at most 53 bits and a binary exponent; each product *)
(* and each sum is computed exactly and rounded to 53 bits, ties to even,  *)
(* one operation at a time, as the amd64 build does (no fused              *)
(* multiply-add).  Mantissas are natural numbers held as sequences of      *)
(* 14-bit limbs, lowest first.  The sample rate (Extended.Float64) only goes*)
(* to the diagnostics on standard error, which are left out; its ten bytes *)
(* are consumed with the Common chunk.                                     *)
(***************************************************************************)
EXTENDS Integers, Sequences, FiniteSets, TLC

\* ------------------------------------------------------------ bounds

\* Longest run of free sample bytes after the sound data header.
MaxData == 4
\* Largest numSampleFrames of the generated COMM chunks.
MaxFrames == 2
\* Largest numChannels of the generated COMM chunks.
MaxChannels == 2
\* Longest payload actually present after an unrelated chunk's header.
MaxPad == 6
\* Frames of the one-channel 16-bit files that are run with -dither.
DitherFrames == 5

\* ------------------------------------------------------------ arithmetic

MaxInt32 == 2147483647

MinInt32 == -2147483647 - 1

\* ------------------------------------------------------------ naturals
\* Natural numbers beyond 2^31: sequences of limbs below 2^14, lowest limb
\* first, no zero limb at the top; <<>> is 0.

LimbBits == 14

Limb == 2^LimbBits

Pow2(k) == 2^k

LimbAt(a, k) == IF k <= Len(a) THEN a[k] ELSE 0

\* A natural number below 2^31.
NatOf(n) ==
    IF n = 0 THEN <<>>
    ELSE IF n < Limb THEN <<n>>
    ELSE IF n < Limb * Limb THEN <<n % Limb, n \div Limb>>
    ELSE <<n % Limb, (n \div Limb) % Limb, n \div (Limb * Limb)>>

\* The value of a natural number of at most two limbs.
NatToInt(a) == LimbAt(a, 1) + Limb * LimbAt(a, 2)

RECURSIVE NatTrim(_)
NatTrim(a) ==
    IF a = <<>> THEN a
    ELSE IF a[Len(a)] = 0 THEN NatTrim(SubSeq(a, 1, Len(a) - 1))
    ELSE a

RECURSIVE CmpFrom(_, _, _)
CmpFrom(a, b, k) ==
    IF k = 0 THEN 0
    ELSE IF a[k] # b[k] THEN (IF a[k] > b[k] THEN 1 ELSE -1)
    ELSE CmpFrom(a, b, k - 1)

\* -1, 0 or 1 as a < b, a = b, a > b.
NatCmp(a, b) ==
    IF Len(a) # Len(b) THEN (IF Len(a) > Len(b) THEN 1 ELSE -1)
    ELSE CmpFrom(a, b, Len(a))

RECURSIVE AddFrom(_, _, _, _)
AddFrom(a, b, k, c) ==
    IF k > Len(a) /\ k > Len(b) THEN (IF c = 0 THEN <<>> ELSE <<c>>)
    ELSE LET t == LimbAt(a, k) + LimbAt(b, k) + c
         IN <<t % Limb>> \o AddFrom(a, b, k + 1, t \div Limb)

NatAdd(a, b) == AddFrom(a, b, 1, 0)

RECURSIVE SubFrom(_, _, _, _)
SubFrom(a, b, k, borrow) ==
    IF k > Len(a) THEN <<>>
    ELSE LET t == a[k] - LimbAt(b, k) - borrow
         IN <<t % Limb>> \o SubFrom(a, b, k + 1, IF t < 0 THEN 1 ELSE 0)

\* a - b for a >= b.
NatSub(a, b) == NatTrim(SubFrom(a, b, 1, 0))

RECURSIVE ColumnSum(_, _, _, _)
ColumnSum(a, b, k, j) ==
    IF j > Len(a) \/ j > k THEN 0
    ELSE (IF k + 1 - j <= Len(b) THEN a[j] * b[k + 1 - j] ELSE 0) + ColumnSum(a, b, k, j + 1)

RECURSIVE MulFrom(_, _, _, _)
MulFrom(a, b, k, c) ==
    IF k > Len(a) + Len(b) - 1 THEN (IF c = 0 THEN <<>> ELSE <<c>>)
    ELSE LET t == ColumnSum(a, b, k, 1) + c
         IN <<t % Limb>> \o MulFrom(a, b, k + 1, t \div Limb)

\* a * b for a and b of at most four limbs each.
NatMul(a, b) == IF a = <<>> \/ b = <<>> THEN <<>> ELSE MulFrom(a, b, 1, 0)

RECURSIVE ShlFrom(_, _, _, _)
ShlFrom(a, r, k, c) ==
    IF k > Len(a) THEN (IF c = 0 THEN <<>> ELSE <<c>>)
    ELSE LET t == a[k] * Pow2(r) + c
         IN <<t % Limb>> \o ShlFrom(a, r, k + 1, t \div Limb)

\* a * 2^n
NatShl(a, n) ==
    IF a = <<>> THEN a
    ELSE [j \in 1..(n \div LimbBits) |-> 0] \o ShlFrom(a, n % LimbBits, 1, 0)

\* a \div 2^n
NatShr(a, n) ==
    LET q == n \div LimbBits
        r == n % LimbBits
        d == IF q >= Len(a) THEN <<>> ELSE SubSeq(a, q + 1, Len(a))
    IN NatTrim([k \in 1..Len(d) |->
                   (d[k] \div Pow2(r)) + (LimbAt(d, k + 1) % Pow2(r)) * Pow2(LimbBits - r)])

\* Bit n of a (bit 0 the lowest) is set.
NatBit(a, n) == (LimbAt(a, n \div LimbBits + 1) \div Pow2(n % LimbBits)) % 2 = 1

\* The lowest n bits of a are all zero.
NatLowZero(a, n) ==
    /\ \A k \in 1..(n \div LimbBits) : LimbAt(a, k) = 0
    /\ LimbAt(a, n \div LimbBits + 1) % Pow2(n % LimbBits) = 0

\* The number of bits of a # 0.
BitLen(a) ==
    LimbBits * (Len(a) - 1)
    + CHOOSE k \in 1..LimbBits : Pow2(k - 1) <= a[Len(a)] /\ a[Len(a)] < Pow2(k)

\* The number of zero bits at the low end of a # 0.
TrailingZeros(a) ==
    LET j == CHOOSE k \in 1..Len(a) : a[k] # 0 /\ \A h \in 1..(k - 1) : a[h] = 0
    IN LimbBits * (j - 1)
       + CHOOSE t \in 0..(LimbBits - 1) : a[j] % Pow2(t) = 0 /\ a[j] % Pow2(t + 1) # 0

\* ------------------------------------------------------------ float64
\* A float64 is [s, m, e]: s * m * 2^e with m odd, or m = <<>> for 0.  The
\* values of the program stay far from the ends of the exponent range.

MantissaBits == 53

DZero == [s |-> 1, m |-> <<>>, e |-> 0]

IsZero(x) == x.m = <<>>

\* s * n * 2^e with the mantissa made odd.
Norm(s, n, e) ==
    IF n = <<>> THEN DZero
    ELSE LET t == TrailingZeros(n) IN [s |-> s, m |-> NatShr(n, t), e |-> e + t]

\* s * n * 2^e rounded to 53 bits, to nearest, ties to even: k bits are
\* dropped, and the rest goes up when the dropped part is more than half of
\* the last place kept, or half of it with the rest odd.
RoundD(s, n, e) ==
    LET k == IF n = <<>> \/ BitLen(n) <= MantissaBits THEN 0 ELSE BitLen(n) - MantissaBits
        q == NatShr(n, k)
        up == k > 0 /\ NatBit(n, k - 1) /\ (~NatLowZero(n, k - 1) \/ NatBit(q, 0))
    IN Norm(s, IF up THEN NatAdd(q, <<1>>) ELSE q, e + k)

\* x * y
DMul(x, y) == RoundD(x.s * y.s, NatMul(x.m, y.m), x.e + y.e)

\* x + y: the mantissas at the lower exponent, added or subtracted.  The
\* sum of two opposite values is +0, and -0 is not told from +0: the
\* program's comparisons, floor and conversion do not tell them apart.
DAdd(x, y) ==
    LET em == IF x.e < y.e THEN x.e ELSE y.e
        a == NatShl(x.m, x.e - em)
        b == NatShl(y.m, y.e - em)
        xover == x.s = y.s \/ NatCmp(a, b) >= 0
    IN RoundD(IF xover THEN x.s ELSE y.s,
              IF x.s = y.s THEN NatAdd(a, b)
              ELSE NatSub(IF xover THEN a ELSE b, IF xover THEN b ELSE a),
              em)

DNegate(x) == [x EXCEPT !.s = -x.s]

\* x - y
DSub(x, y) == DAdd(x, DNegate(y))

\* x < 0
DIsNeg(x) == x.s = -1 /\ ~IsZero(x)

\* x < y
DLess(x, y) == DIsNeg(DSub(x, y))

\* float64(n) for an integer below 2^31 in size.
DFromInt(n) == Norm(IF n < 0 THEN -1 ELSE 1, NatOf(IF n < 0 THEN -n ELSE n), 0)

\* x / 256.0: exact, the exponent falls by 8.
DDiv256(x) == IF IsZero(x) THEN x ELSE [x EXCEPT !.e = x.e - 8]

\* math.Floor(x) as an integer, for |x| < 2^28.
DFloor(x) ==
    IF x.e >= 0 THEN x.s * NatToInt(NatShl(x.m, x.e))
    ELSE LET q == NatToInt(NatShr(x.m, -x.e)) IN IF x.s = 1 THEN q ELSE -(q + 1)

\* 0.5, 128.0 and 255.0
DHalf == [s |-> 1, m |-> <<1>>, e |-> -1]

D128 == [s |-> 1, m |-> <<1>>, e |-> 7]

D255 == [s |-> 1, m |-> <<255>>, e |-> 0]

\* ------------------------------------------------------------ tags

FORM == <<70, 79, 82, 77>>

AIFF == <<65, 73, 70, 70>>

AIFC == <<65, 73, 70, 67>>

COMM == <<67, 79, 77, 77>>

SSND == <<83, 83, 78, 68>>

RAW == <<114, 97, 119, 32>>

\* Tags the program does not know: "NONE", "sowt", "ANNO", "RIFF", "WAVE".
NONE == <<78, 79, 78, 69>>

SOWT == <<115, 111, 119, 116>>

ANNO == <<65, 78, 78, 79>>

RIFF == <<82, 73, 70, 70>>

WAVE == <<87, 65, 86, 69>>

\* ------------------------------------------------------------ decoding
\* binary.Read with binary.BigEndian, field by field.

\* uint16 from two bytes.
U16(b1, b2) == b1 * 256 + b2

\* int16 from two bytes (two's complement).
readInt16(b1, b2) == IF b1 >= 128 THEN (b1 - 256) * 256 + b2 ELSE b1 * 256 + b2

\* int32 from four bytes (two's complement).
I32(b) == ((IF b[1] >= 128 THEN b[1] - 256 ELSE b[1]) * 65536 + b[2] * 256 + b[3]) * 256 + b[4]

\* uint32 from four bytes; the generated files keep it below 2^31.
U32(b) == ((b[1] * 256 + b[2]) * 256 + b[3]) * 256 + b[4]

\* x &^ 1 on a two's complement integer: clear bit 0.
AndNot1(x) == x - (x % 2)

\* int32 addition of 1, wrapping at 2^31 - 1.
Inc32(x) == IF x = MaxInt32 THEN MinInt32 ELSE x + 1

\* ------------------------------------------------------------ encoding
\* The generated input files.

Be16(n) == <<(n \div 256) % 256, n % 256>>

Be32Nat(n) == <<n \div 16777216, (n \div 65536) % 256, (n \div 256) % 256, n % 256>>

Be32(n) ==
    IF n >= 0 THEN Be32Nat(n)
    ELSE LET m == Be32Nat(-(n + 1)) IN <<255 - m[1], 255 - m[2], 255 - m[3], 255 - m[4]>>

Zeros(k) == [j \in 1..k |-> 0]

\* 8000 Hz as an 80-bit extended float.
Rate8000 == <<64, 11, 250, 0, 0, 0, 0, 0, 0, 0>>

\* The compression type and the pstring name after it: the count byte, the
\* name and a pad byte when that total is odd.
CompressionBytes(ctype, nameSize) ==
    ctype \o <<nameSize>> \o Zeros(AndNot1(nameSize + 2) - 1)

CommBody(ch, frames, bits, comp) == Be16(ch) \o Be32(frames) \o Be16(bits) \o Rate8000 \o comp

CommChunk(ch, frames, bits, comp) ==
    LET body == CommBody(ch, frames, bits, comp) IN COMM \o Be32(Len(body)) \o body

SsndChunk(off, blk, data) == SSND \o Be32(8 + Len(data)) \o Be32(off) \o Be32(blk) \o data

Container(top, ftype, rest) == top \o Be32(4 + Len(rest)) \o ftype \o rest

\* An unrelated chunk: a declared size and the payload really present.
JunkChunk(size, payload) == ANNO \o Be32(size) \o payload

Prefixes(f) == {SubSeq(f, 1, k) : k \in 0..Len(f)}

RECURSIVE SeqsUpTo(_, _)
SeqsUpTo(S, n) ==
    IF n = 0 THEN {<<>>}
    ELSE LET shorter == SeqsUpTo(S, n - 1)
         IN shorter \cup {Append(s, x) : s \in {t \in shorter : Len(t) = n - 1}, x \in S}

\* ------------------------------------------------------------ inputs

\* Sample bytes: the extremes and the two values around one half.
SampleBytes == {0, 127, 128, 255}

\* 16-bit samples of the two-channel files.
Samples16 == {256, -256, 128}

\* 16-bit samples of the dithered files: just below and above the ends of the
\* range and around the middle, each with a half in its low byte.
DitherSamples == {-32640, 32640, 128, -1}

\* Sizes an unrelated chunk declares: empty, even, odd, negative, the
\* largest int32 and one far beyond the end of the file.
JunkSizes == {0, 4, 5, -8, MaxInt32, 1000}

\* The sound data of the files with free sample bytes.
SampleData == SeqsUpTo(SampleBytes, MaxData)

Samples16Data(ss) == [j \in 1..(2 * Len(ss)) |-> Be16(ss[(j + 1) \div 2])[((j - 1) % 2) + 1]]

PlainFile(ch, frames, bits, data) ==
    Container(FORM, AIFF, CommChunk(ch, frames, bits, <<>>) \o SsndChunk(0, 0, data))

CompressionChoices(ftype) ==
    IF ftype = AIFC
    THEN {CompressionBytes(ct, ns) : ct \in {RAW, NONE, SOWT}, ns \in 0..2}
    ELSE {<<>>}

\* The file that is cut short at every length.
LongFile ==
    Container(FORM, AIFC,
        JunkChunk(5, Zeros(6)) \o CommChunk(2, 1, 16, CompressionBytes(RAW, 1))
        \o SsndChunk(0, 0, <<0, 128, 0, 0>>))

\* ------------------------------------------------------------ state

DITHER_BUF_MASK == 7

DITHER_BUF_SIZE == 8

VARIABLES
    args,                \* flag.Args(): the arguments after the flags
    openable,            \* os.Open(args[0]) succeeds
    file,                \* the bytes of the input file
    applyDither,         \* the -dither flag
    pc,                  \* position of main()
    err,                 \* why the run ended early, "" while it has not
    pos,                 \* bytes of the file consumed by the reader r
    headerId,            \* header.Id, <<>> before it is read
    formType,            \* header.FormType
    chunkId,             \* chunk.Id of scanChunk
    chunkSize,           \* chunk.Size of scanChunk
    numChannels,         \* common.NumChannels, -1 before it is read
    numSampleFrames,     \* common.NumSampleFrames
    sampleSize,          \* common.SampleSize
    compressionType,     \* compression.CompressionType, <<>> before it is read
    compressionNameSize, \* compression.CompressionNameSize
    offset,              \* chunk.Offset of the sound data header, -1 before it is read
    blockSize,           \* chunk.BlockSize
    buffer,              \* the dither error history, indexed 0..7
    idx,                 \* the dither rotation index
    i,                   \* the frame index of the sample loop
    out,                 \* the values printed so far
    stdout,              \* every token written to standard output
    src,                 \* for each printed value, pos when its frame was read
    skippedAt,           \* pos of the header of the chunk scanChunk has just skipped, else -1
    dataStart,           \* pos right after the sound data header, -1 before
    draws,               \* number of calls of noise()
    lastV,               \* the latest argument of filter
    ssndScanned          \* scanChunk(r, "SSND") has been entered

vars == <<args, openable, file, applyDither, pc, err, pos, headerId, formType, chunkId, chunkSize,
          numChannels, numSampleFrames, sampleSize, compressionType, compressionNameSize,
          offset, blockSize, buffer, idx, i, out, stdout, src, skippedAt,
          dataStart, draws, lastV, ssndScanned>>

inputVars == <<args, openable, file, applyDither>>

formVars == <<headerId, formType>>

scanVars == <<chunkId, chunkSize, skippedAt>>

commonVars == <<numChannels, numSampleFrames, sampleSize>>

compressionVars == <<compressionType, compressionNameSize>>

soundVars == <<offset, blockSize, dataStart>>

ditherVars == <<buffer, idx, draws, lastV>>

loopVars == <<i, out, stdout, src>>

\* The state when main() starts with the arguments a and the -dither flag d;
\* f is what the file a[1] holds when o says that it can be opened.
Launch(a, o, f, d) ==
    /\ args = a
    /\ openable = o
    /\ file = f
    /\ applyDither = d
    /\ pc = "start"
    /\ err = ""
    /\ pos = 0
    /\ headerId = <<>>
    /\ formType = <<>>
    /\ chunkId = <<>>
    /\ chunkSize = 0
    /\ numChannels = -1
    /\ numSampleFrames = -1
    /\ sampleSize = -1
    /\ compressionType = <<>>
    /\ compressionNameSize = -1
    /\ offset = -1
    /\ blockSize = -1
    /\ buffer = [k \in 0..(DITHER_BUF_SIZE - 1) |-> DZero]
    /\ idx = 0
    /\ i = 0
    /\ out = <<>>
    /\ stdout = <<>>
    /\ src = <<>>
    /\ skippedAt = -1
    /\ dataStart = -1
    /\ draws = 0
    /\ lastV = DZero
    /\ ssndScanned = FALSE

\* A run on the file f, which can be opened.
Start(f, d) == Launch(<<"input.aiff">>, TRUE, f, d)

\* Runs without a file argument, and runs whose file cannot be opened.
LaunchInputs ==
    \E a \in {<<>>, <<"input.aiff">>, <<"input.aiff", "more.aiff">>}, d \in BOOLEAN :
        \/ Launch(a, FALSE, <<>>, d)
        \/ Launch(a, TRUE, PlainFile(1, 1, 8, <<128>>), d)

\* Sample sequences on which the error feedback comes within 2^-20 of a
\* rounding boundary.
RoundingSamples ==
    { <<-9810, 21215, 31304, 3263>>,
      <<-24796, -22547, -6131, -19133, 9677>> }

\* One channel, 16 bits, with and without -dither.
RoundingInputs ==
    \E ss \in RoundingSamples, d \in BOOLEAN :
        Start(PlainFile(1, Len(ss), 16, Samples16Data(ss)), d)

\* Well-formed and short sound data of every shape.
SampleInputs ==
    \E ch \in 1..MaxChannels, fr \in 0..MaxFrames, bits \in {8, 16}, data \in SampleData,
       d \in BOOLEAN :
        Start(PlainFile(ch, fr, bits, data), d)

\* Two channels, two frames, 16 bits, all four samples present.
StereoInputs ==
    \E a0 \in Samples16, b0 \in Samples16, a1 \in Samples16, b1 \in Samples16, d \in BOOLEAN :
        Start(PlainFile(2, 2, 16, Be16(a0) \o Be16(b0) \o Be16(a1) \o Be16(b1)), d)

\* One channel, 16 bits, every frame present, run with -dither: the error
\* history fills all five weighted taps.
DitherInputs ==
    \E ss \in [1..DitherFrames -> DitherSamples] :
        Start(PlainFile(1, DitherFrames, 16, Samples16Data(ss)), TRUE)

\* Every header field the program validates, right and wrong.
HeaderInputs ==
    \E top \in {FORM, RIFF}, ftype \in {AIFF, AIFC, WAVE} :
        \E comp \in CompressionChoices(ftype), bits \in {8, 12, 16}, off \in {0, 1}, blk \in {0, 1} :
            Start(Container(top, ftype,
                      CommChunk(1, 1, bits, comp) \o SsndChunk(off, blk, <<128, 0>>)), FALSE)

\* An unrelated chunk before COMM or between COMM and SSND, whose declared
\* size need not be the length of its payload.
JunkInputs ==
    \E before \in BOOLEAN, size \in JunkSizes, k \in 0..MaxPad :
        Start(Container(FORM, AIFF,
                  (IF before THEN JunkChunk(size, Zeros(k)) ELSE <<>>)
                  \o CommChunk(1, 1, 8, <<>>)
                  \o (IF before THEN <<>> ELSE JunkChunk(size, Zeros(k)))
                  \o SsndChunk(0, 0, <<128>>)), FALSE)

\* Two unrelated chunks in a row before COMM.
TwoJunkInputs ==
    \E s1 \in JunkSizes, k1 \in 0..MaxPad, s2 \in JunkSizes, k2 \in 0..MaxPad :
        Start(Container(FORM, AIFF,
                  JunkChunk(s1, Zeros(k1)) \o JunkChunk(s2, Zeros(k2))
                  \o CommChunk(1, 1, 8, <<>>) \o SsndChunk(0, 0, <<128>>)), FALSE)

\* No SSND chunk, with or without a COMM chunk: the file ends with an
\* unrelated chunk.
MissingInputs ==
    \E comm \in BOOLEAN, size \in JunkSizes, k \in 0..MaxPad :
        Start(Container(FORM, AIFF,
                  (IF comm THEN CommChunk(1, 1, 8, <<>>) ELSE <<>>)
                  \o JunkChunk(size, Zeros(k))), FALSE)

\* A file cut short at every length.
TruncatedInputs == \E f \in Prefixes(LongFile) : Start(f, FALSE)

\* The inputs that differ in what the chunk scans meet.
ScanInit ==
    \/ LaunchInputs
    \/ HeaderInputs
    \/ JunkInputs
    \/ TwoJunkInputs
    \/ MissingInputs
    \/ TruncatedInputs

Init == SampleInputs \/ StereoInputs \/ DitherInputs \/ RoundingInputs \/ ScanInit

\* ------------------------------------------------------------ reading

\* The n bytes after the first p bytes of the file.
Bytes(p, n) == SubSeq(file, p + 1, p + n)

\* binary.Read of an n-byte struct succeeds: io.ReadFull finds n bytes.
CanRead(p, n) == p + n <= Len(file)

\* A skip that seeks by size, backwards too, within the file.
skipBytesSeek(p, size) ==
    IF size > Len(file) - p THEN Len(file) ELSE IF p + size < 0 THEN 0 ELSE p + size

\* skipBytes: size calls of ReadByte, each consuming one byte until the end
\* of the file and none after it (the error is dropped); no call at all when
\* size <= 0.  The reader's position afterwards.
skipBytes(p, size) ==
    IF size <= 0 THEN p ELSE IF size > Len(file) - p THEN Len(file) ELSE p + size

\* A skip of the declared size, without the pad byte.
PaddedSizeNoPad(size) == size

\* (chunk.Size + 1) &^ 1 in int32.
PaddedSize(size) == AndNot1(Inc32(size))

\* (int32(compression.CompressionNameSize) + 2) &^ 1
paddedStringSize(nameSize) == AndNot1(nameSize + 2)

\* ------------------------------------------------------------ validation

IsForm(id) == id = FORM

IsAiffType(t) == t = AIFC \/ t = AIFF

\* header.FormType[3] == 'C'
hasCompression(t) == t[4] = 67

IsRawPcm(ct) == ct = RAW

\* A check that lets every size up to 16 bits through.
ValidSampleSizeUpTo16(bits) == bits <= 16

ValidSampleSize(bits) == bits = 8 \/ bits = 16

ZeroOffsets(off, blk) == off = 0 /\ blk = 0

\* ------------------------------------------------------------ reducer

\* Lipshitz's minimally audible FIR: the float64 nearest to each of
\* 2.033, -2.165, 1.959, -1.590, 0.6149.
SHAPED_BS ==
    << [s |-> 1, m |-> <<9437, 1048, 14680, 1040>>, e |-> -51],
       [s |-> -1, m |-> <<7209, 2621, 3932, 554>>, e |-> -50],
       [s |-> 1, m |-> <<10617, 1179, 131, 1003>>, e |-> -51],
       [s |-> -1, m |-> <<15729, 7208, 2621, 1628>>, e |-> -52],
       [s |-> 1, m |-> <<15283, 969, 13579, 314>>, e |-> -51] >>

\* x & DITHER_BUF_MASK on a uint.
Mask(x) == x % (DITHER_BUF_MASK + 1)

\* Values noise() can return, of the many in [-0.5, 0.5]: those for
\* rand.Int31() = 0, 2^30 and 2^31 - 1, which are -0.5, 2^-32 and 0.5.
NoiseDraws == {DNegate(DHalf), [s |-> 1, m |-> <<1>>, e |-> -32], DHalf}

\* math.Floor(v + 0.5)
round(v) == DFromInt(DFloor(DAdd(v, DHalf)))

\* A filter that saturates at 255 only.
filterUpperOnly(v) == IF DLess(D255, v) THEN D255 ELSE v

filter(v) ==
    IF DLess(D255, v) THEN D255
    ELSE IF DIsNeg(v) THEN DZero
    ELSE v

\* float64(v) / 256.0 + 128.0 for an int16 v.
Rescale(s) == DAdd(DDiv256(DFromInt(s)), D128)

\* uint16(x) of a float64: the fraction is dropped.  filter keeps x in
\* [0, 255], where the result fits.
ToUint16(v) == IF DIsNeg(v) THEN -DFloor(DNegate(v)) ELSE DFloor(v)

\* An 8-bit case that takes the byte as signed and moves it to 0..255.
Sample8Signed(b1) == (b1 + 128) % 256

\* The 8-bit case prints the byte as it was read.
Sample8(b1) == b1

\* acc + buf[(ix - k) & DITHER_BUF_MASK] * SHAPED_BS[k] + ... up to
\* SHAPED_BS[4], summed from the left.
RECURSIVE Feedback(_, _, _, _)
Feedback(acc, buf, ix, k) ==
    IF k >= Len(SHAPED_BS) THEN acc
    ELSE Feedback(DAdd(acc, DMul(buf[Mask(ix - k)], SHAPED_BS[k + 1])), buf, ix, k + 1)

\* The input plus the weighted last five quantization errors.
DitherXe(v, buf, ix) == Feedback(v, buf, ix, 0)

\* dither(v, addNoise) with n1 and n2 the two values noise() returns when it
\* is called: the result and the state it leaves.
dither(v, addNoise, n1, n2) ==
    LET xe == DitherXe(v, buffer, idx)
        result == round(DAdd(xe, IF addNoise THEN DAdd(n1, n2) ELSE DZero))
        nidx == Mask(idx + 1)
    IN [result |-> result,
        idx |-> nidx,
        buffer |-> [buffer EXCEPT ![nidx] = DSub(xe, result)],
        draws |-> IF addNoise THEN draws + 2 ELSE draws]

\* The addNoise argument of the one call of dither.
AddNoiseArg == FALSE

\* The ReadByte calls that drop the other channels of a frame:
\* common.NumChannels - 1 in int16.
DiscardCount(channels) == IF channels = -32768 THEN 32767 ELSE channels - 1

\* ------------------------------------------------------------ actions

\* panic(...): the run ends, the reader left at p.
Panic(kind, p) == pc' = "failed" /\ err' = kind /\ pos' = p

\* The start of main(): without a file argument the usage line goes to
\* standard output and the process exits with status 1; a file that cannot
\* be opened is a panic; otherwise the reader is at the start of args[0].
OpenInput ==
    /\ pc = "start"
    /\ IF Len(args) < 1
       THEN /\ stdout' = Append(stdout, <<"usage">>)
            /\ pc' = "exit1"
            /\ err' = "usage"
            /\ UNCHANGED pos
       ELSE IF ~openable
       THEN /\ Panic("open", pos)
            /\ UNCHANGED stdout
       ELSE /\ pc' = "form"
            /\ UNCHANGED <<err, pos, stdout>>
    /\ UNCHANGED <<inputVars, formVars, scanVars, commonVars, compressionVars, soundVars,
                   ditherVars, i, out, src, ssndScanned>>

\* Parse AIFF container chunk.
ReadFormHeader ==
    /\ pc = "form"
    /\ IF ~CanRead(pos, 12)
       THEN /\ Panic("read", Len(file))
            /\ UNCHANGED formVars
       ELSE /\ headerId' = Bytes(pos, 4)
            /\ formType' = Bytes(pos + 8, 4)
            /\ IF ~IsForm(headerId') \/ ~IsAiffType(formType')
               THEN Panic("notAiff", pos + 12)
               ELSE pc' = "scanCOMM" /\ pos' = pos + 12 /\ UNCHANGED err
    /\ UNCHANGED <<inputVars, scanVars, commonVars, compressionVars, soundVars,
                   ditherVars, loopVars, ssndScanned>>

\* One turn of the loop of scanChunk(r, chunkId), called at pc = at and
\* returning to pc = next.
scanChunk(at, tag, next) ==
    /\ pc = at
    /\ IF ~CanRead(pos, 8)
       THEN /\ Panic("read", Len(file))
            /\ skippedAt' = -1
            /\ UNCHANGED <<chunkId, chunkSize>>
       ELSE /\ chunkId' = Bytes(pos, 4)
            /\ chunkSize' = I32(Bytes(pos + 4, 4))
            /\ IF chunkId' = tag
               THEN pc' = next /\ pos' = pos + 8 /\ skippedAt' = -1
               ELSE pc' = at /\ pos' = skipBytes(pos + 8, PaddedSize(chunkSize')) /\ skippedAt' = pos
            /\ UNCHANGED err
    /\ UNCHANGED <<inputVars, formVars, commonVars, compressionVars, soundVars,
                   ditherVars, loopVars>>

ScanCOMM == scanChunk("scanCOMM", COMM, "common") /\ UNCHANGED ssndScanned

ScanSSND == scanChunk("scanSSND", SSND, "sound") /\ ssndScanned' = TRUE

\* Parse Common chunk.
ReadCommon ==
    /\ pc = "common"
    /\ IF ~CanRead(pos, 18)
       THEN /\ Panic("read", Len(file))
            /\ UNCHANGED commonVars
       ELSE /\ numChannels' = readInt16(file[pos + 1], file[pos + 2])
            /\ numSampleFrames' = U32(Bytes(pos + 2, 4))
            /\ sampleSize' = U16(file[pos + 7], file[pos + 8])
            /\ pos' = pos + 18
            /\ pc' = IF hasCompression(formType) THEN "compression" ELSE "checkSize"
            /\ UNCHANGED err
    /\ UNCHANGED <<inputVars, formVars, scanVars, compressionVars, soundVars,
                   ditherVars, loopVars, ssndScanned>>

\* The compression header of an AIFC file and the name after it.
ReadCompression ==
    /\ pc = "compression"
    /\ IF ~CanRead(pos, 5)
       THEN /\ Panic("read", Len(file))
            /\ UNCHANGED compressionVars
       ELSE /\ compressionType' = Bytes(pos, 4)
            /\ compressionNameSize' = file[pos + 5]
            /\ IF ~IsRawPcm(compressionType')
               THEN Panic("notRaw", pos + 5)
               ELSE /\ pos' = skipBytes(pos + 5, paddedStringSize(compressionNameSize') - 1)
                    /\ pc' = "checkSize"
                    /\ UNCHANGED err
    /\ UNCHANGED <<inputVars, formVars, scanVars, commonVars, soundVars,
                   ditherVars, loopVars, ssndScanned>>

CheckSampleSize ==
    /\ pc = "checkSize"
    /\ IF ~ValidSampleSize(sampleSize)
       THEN Panic("sampleSize", pos)
       ELSE pc' = "scanSSND" /\ UNCHANGED <<err, pos>>
    /\ UNCHANGED <<inputVars, formVars, scanVars, commonVars, compressionVars, soundVars,
                   ditherVars, loopVars, ssndScanned>>

\* The sound data header after the SSND chunk header.
ReadSoundHeader ==
    /\ pc = "sound"
    /\ IF ~CanRead(pos, 8)
       THEN /\ Panic("read", Len(file))
            /\ UNCHANGED soundVars
       ELSE /\ offset' = U32(Bytes(pos, 4))
            /\ blockSize' = U32(Bytes(pos + 4, 4))
            /\ dataStart' = pos + 8
            /\ IF ~ZeroOffsets(offset', blockSize')
               THEN Panic("offset", pos + 8)
               ELSE pc' = "open" /\ pos' = pos + 8 /\ UNCHANGED err
    /\ UNCHANGED <<inputVars, formVars, scanVars, commonVars, compressionVars,
                   ditherVars, loopVars, ssndScanned>>

\* fmt.Printf("prog_uchar %s[] PROGMEM = {\n", arrayName)
PrintOpen ==
    /\ pc = "open"
    /\ stdout' = Append(stdout, <<"open">>)
    /\ pc' = "loop"
    /\ UNCHANGED <<inputVars, err, pos, formVars, scanVars, commonVars, compressionVars,
                   soundVars, ditherVars, i, out, src, ssndScanned>>

\* What noise() may return in a call of dither, 0 standing for no call.
NoiseOf(addNoise) == IF addNoise THEN NoiseDraws ELSE {DZero}

\* One turn of the sample loop: read the frame's first sample, print it,
\* print the separator, drop the other channels.
SampleFrame ==
    /\ pc = "loop"
    /\ i < numSampleFrames
    /\ IF pos >= Len(file)
       THEN /\ Panic("read", pos)
            /\ UNCHANGED <<ditherVars, loopVars>>
       ELSE IF sampleSize = 16 /\ pos + 1 >= Len(file)
       THEN /\ Panic("read", pos + 1)
            /\ UNCHANGED <<ditherVars, loopVars>>
       ELSE \E n1 \in NoiseOf(AddNoiseArg), n2 \in NoiseOf(AddNoiseArg) :
            LET b1 == file[pos + 1]
                width == IF sampleSize = 16 THEN 2 ELSE 1
                v == Rescale(readInt16(b1, file[pos + 2]))
                d == dither(v, AddNoiseArg, n1, n2)
                dithered == sampleSize = 16 /\ applyDither
                arg == IF dithered THEN d.result ELSE v
                printed == sampleSize = 8 \/ sampleSize = 16
                value == IF sampleSize = 8 THEN Sample8(b1) ELSE ToUint16(filter(arg))
            IN /\ out' = IF printed THEN Append(out, value) ELSE out
               /\ src' = IF printed THEN Append(src, pos) ELSE src
               /\ stdout' = stdout \o (IF printed THEN << <<"val", value>> >> ELSE <<>>)
                                   \o (IF i < numSampleFrames - 1 THEN << <<"sep">> >> ELSE <<>>)
               /\ buffer' = IF dithered THEN d.buffer ELSE buffer
               /\ idx' = IF dithered THEN d.idx ELSE idx
               /\ draws' = IF dithered THEN d.draws ELSE draws
               /\ lastV' = IF sampleSize = 16 THEN arg ELSE lastV
               /\ pos' = skipBytes(pos + width, DiscardCount(numChannels))
               /\ i' = i + 1
               /\ UNCHANGED <<pc, err>>
    /\ UNCHANGED <<inputVars, formVars, scanVars, commonVars, compressionVars,
                   soundVars, ssndScanned>>

\* fmt.Println("};")
PrintClose ==
    /\ pc = "loop"
    /\ i >= numSampleFrames
    /\ stdout' = Append(stdout, <<"close">>)
    /\ pc' = "done"
    /\ UNCHANGED <<inputVars, err, pos, formVars, scanVars, commonVars, compressionVars,
                   soundVars, ditherVars, i, out, src, ssndScanned>>

Next ==
    \/ OpenInput
    \/ ReadFormHeader
    \/ ScanCOMM
    \/ ReadCommon
    \/ ReadCompression
    \/ CheckSampleSize
    \/ ScanSSND
    \/ ReadSoundHeader
    \/ PrintOpen
    \/ SampleFrame
    \/ PrintClose

Spec == Init /\ [][Next]_vars

\* main() is one sequential run: a chunk scan that can take its next turn
\* takes it.  The runs on the inputs of the chunk scans.
FairSpec == ScanInit /\ [][Next]_vars /\ WF_vars(ScanCOMM) /\ WF_vars(ScanSSND)

TypeOK ==
    /\ pc \in {"start", "exit1", "form", "scanCOMM", "common", "compression", "checkSize", "scanSSND",
               "sound", "open", "loop", "done", "failed"}
    /\ pos \in 0..Len(file)
    /\ idx \in 0..DITHER_BUF_MASK
    /\ i >= 0

\* ------------------------------------------------------------ properties

\* Bytes per sample.
Width == sampleSize \div 8

\* The 16-bit sample whose first byte follows the first p bytes of the file.
SampleAt(p) == readInt16(file[p + 1], file[p + 2])

\* clamp(floor(s/256 + 128 + 0.5), 0, 255)
Nominal(s) ==
    LET r == (s + 32768 + 128) \div 256
    IN IF r > 255 THEN 255 ELSE IF r < 0 THEN 0 ELSE r

\* Where the channel-0 sample of the k-th frame starts (k from 1).
FramePos(k) == dataStart + (k - 1) * numChannels * Width

\* The sound data holds every sample of every frame.
FullData == Len(file) - dataStart >= numSampleFrames * numChannels * Width

\* k is n rounded up to even.
IsRoundUpEven(k, n) == k % 2 = 0 /\ k - n \in {0, 1}

\* C1: with 16-bit input and no dither every printed value is the sample
\* rounded to nearest: clamp(floor(s/256 + 128 + 0.5), 0, 255).
C1_RoundedNoDither ==
    (sampleSize = 16 /\ ~applyDither) =>
        \A k \in 1..Len(out) : out[k] = Nominal(SampleAt(src[k]))

\* C2: for N >= 1 channels and full sound data the k-th printed value is read
\* at the channel-0 sample of frame k, the other N-1 samples of the frame
\* having been dropped at the sample width, and a finished run has printed
\* exactly numSampleFrames values.
C2_ChannelZeroOnly ==
    (dataStart # -1 /\ numChannels >= 1 /\ sampleSize \in {8, 16} /\ FullData) =>
        /\ \A k \in 1..Len(out) : src[k] = FramePos(k)
        /\ pc = "done" => Len(out) = numSampleFrames

\* C3: a run that has ended in a failure, by a panic or by exit status 1, has
\* written nothing to standard output.
C3_AllOrNothing == pc \in {"failed", "exit1"} => stdout = <<>>

\* C4: every printed value is an integer in 0..255, dithered or not.
C4_OutputRange == \A k \in 1..Len(out) : out[k] \in 0..255

\* The error feedback alone has driven a dithered sample below 0, and 0 was
\* printed for it.
C4_Witness ==
    /\ applyDither
    /\ sampleSize = 16
    /\ Len(out) >= 2
    /\ DIsNeg(lastV)
    /\ out[Len(out)] = 0

\* C5: with 8-bit input the printed values are the channel-0 bytes of the
\* sound data, in order and unchanged, and the dither state is never touched,
\* whatever the -dither flag.
C5_EightBitIdentity ==
    (sampleSize = 8 /\ numChannels >= 1) =>
        /\ \A k \in 1..Len(out) : out[k] = file[FramePos(k) + 1]
        /\ buffer = [k \in 0..(DITHER_BUF_SIZE - 1) |-> DZero]
        /\ idx = 0
        /\ draws = 0

\* A two-channel 8-bit file run with -dither has printed two different bytes.
C5_Witness ==
    /\ sampleSize = 8
    /\ applyDither
    /\ numChannels = 2
    /\ pc = "done"
    /\ Len(out) = 2
    /\ out[1] = 255
    /\ out[2] = 127

BadTop == headerId # <<>> /\ headerId # FORM

BadFormType == formType # <<>> /\ formType # AIFF /\ formType # AIFC

BadCompression == compressionType # <<>> /\ compressionType # RAW

BadSampleSize == sampleSize # -1 /\ sampleSize # 8 /\ sampleSize # 16

BadOffsets == offset # -1 /\ (offset # 0 \/ blockSize # 0)

\* C6: once a header field that fails validation has been read, the run never
\* reaches the sample loop: no byte of sound data is consumed, nothing is
\* printed; and with a compression type that is not raw PCM the scan for SSND
\* is never entered.
C6_HeaderChecksFirst ==
    /\ (BadTop \/ BadFormType \/ BadCompression \/ BadSampleSize \/ BadOffsets) =>
           /\ pc \notin {"open", "loop", "done"}
           /\ i = 0
           /\ out = <<>>
           /\ stdout = <<>>
           /\ dataStart = -1 \/ pos <= dataStart
    /\ BadCompression => ~ssndScanned /\ pc \notin {"scanSSND", "sound"}

\* An AIFC file with a wrong compression type and a wrong sample size has
\* failed on the compression type.
C6_Witness ==
    /\ pc = "failed"
    /\ err = "notRaw"
    /\ BadCompression
    /\ BadSampleSize

\* C7 as stated: after every skipped chunk with declared size n the next
\* header is read 8 + (n rounded up to even) bytes after the chunk's start.
C7_SkipRoundUpEven ==
    skippedAt # -1 => IsRoundUpEven(pos - skippedAt - 8, chunkSize)

\* C7 amended: that holds when 0 <= n < 2^31 - 1 and the padded payload lies
\* within the file; when n is negative or 2^31 - 1 (n + 1 wraps) nothing is
\* skipped; when the file is shorter the skip stops at its end.
C7_SkipWithinFile ==
    skippedAt # -1 =>
        LET k == pos - skippedAt - 8
            rest == Len(file) - skippedAt - 8
        IN IF chunkSize < 0 \/ chunkSize = MaxInt32 THEN k = 0
           ELSE IF rest >= chunkSize /\ (chunkSize % 2 = 0 \/ rest > chunkSize)
           THEN IsRoundUpEven(k, chunkSize)
           ELSE pos = Len(file)

\* A chunk declaring size 5 has had 6 bytes skipped.
C7_Witness == skippedAt # -1 /\ chunkSize = 5 /\ pos = skippedAt + 8 + 6

\* C8: a run that finishes has found every sample of every frame in the
\* sound data: it never finishes on sound data shorter than numSampleFrames
\* full frames.
C8_ShortDataFails == (pc = "done" /\ numChannels >= 1) => FullData

\* Whether the scan for tag, its next header at p, visits a header with that
\* tag before the file ends.
RECURSIVE ScanFinds(_, _)
ScanFinds(p, tag) ==
    IF p + 8 > Len(file) THEN FALSE
    ELSE IF Bytes(p, 4) = tag THEN TRUE
    ELSE LET n == I32(Bytes(p + 4, 4))
             rest == Len(file) - p - 8
         IN IF n < 0 \/ n = MaxInt32 THEN ScanFinds(p + 8, tag)
            ELSE IF n >= rest THEN FALSE
            ELSE ScanFinds(p + 8 + n + (n % 2), tag)

\* C9: a scan that visits no header with the requested tag ends in a read
\* error, whatever sizes the headers on its way declare.
C9_ScanEnds ==
    /\ (pc = "scanCOMM" /\ ~ScanFinds(pos, COMM)) ~> (pc = "failed" /\ err = "read")
    /\ (pc = "scanSSND" /\ ~ScanFinds(pos, SSND)) ~> (pc = "failed" /\ err = "read")

\* The scan for SSND has failed at the end of a file without one, after a
\* last chunk that declared a negative size.
C9_Witness ==
    /\ pc = "failed"
    /\ err = "read"
    /\ ssndScanned
    /\ offset = -1
    /\ chunkId = ANNO
    /\ chunkSize < 0

\* C10: with -dither, two noise values are drawn for every 16-bit sample
\* printed and enter the value that is rounded.
C10_NoiseDrawn == (applyDither /\ sampleSize = 16) => draws = 2 * Len(out)

====
